---- MODULE Spec2Model ----
(***************************************************************************)
(* A model of d3.windrose.js: the layout computations of the three wind    *)
(* rose styles (angles, domain, radial offsets) and the sequence of SVG    *)
(* elements each draw call appends to its svgContainer.                    *)
(*                                                                         *)
(* A JavaScript object is a sequence of entries in insertion order, the    *)
(* order a for-in loop visits its keys.  A JavaScript number that the code *)
(* only adds and compares is an integer; an angle is an exact rational     *)
(* (the code's doubles are read as the reals they approximate); a value    *)
(* that may be undefined or NaN is a tagged record.                        *)
(***************************************************************************)
EXTENDS Integers, Sequences, FiniteSets, TLC

VARIABLES data, center, svgContainer, op, outcome, directions, angs, dom

vars == <<data, center, svgContainer, op, outcome, directions, angs, dom>>

\* ------------------------------------------------------------------ bounds

\* The most directions of a generated dataset.
MaxDirs == 2

\* The most speed bins of one direction of a generated dataset.
MaxBins == 2

\* ------------------------------------------------------- JavaScript values

Num(n) == [t |-> "number", n |-> n]

NaN == [t |-> "NaN", n |-> 0]

Undefined == [t |-> "undefined", n |-> 0]

Obj == [t |-> "object", n |-> 0]

\* a + b of two values: a number only when both are numbers (undefined + 3 is NaN).
JsAdd(a, b) == IF a.t = "number" /\ b.t = "number" THEN Num(a.n + b.n) ELSE NaN

\* --------------------------------------------------------------- rationals

Abs(n) == IF n < 0 THEN -n ELSE n

RECURSIVE GCD(_, _)
GCD(a, b) == IF b = 0 THEN a ELSE GCD(b, a % b)

\* The rational num/den (den # 0) in lowest terms with a positive denominator.
Rat(num, den) ==
    LET g == GCD(Abs(num), Abs(den))
        s == IF den < 0 THEN -1 ELSE 1
    IN  [num |-> (s * num) \div g, den |-> (s * den) \div g]

RatInt(n) == [num |-> n, den |-> 1]

RatAdd(a, b) == Rat(a.num * b.den + b.num * a.den, a.den * b.den)

RatSub(a, b) == Rat(a.num * b.den - b.num * a.den, a.den * b.den)

RatMul(a, b) == Rat(a.num * b.num, a.den * b.den)

RatDiv(a, b) == Rat(a.num * b.den, a.den * b.num)

RatLe(a, b) == a.num * b.den <= b.num * a.den

RatLt(a, b) == a.num * b.den < b.num * a.den

\* ------------------------------------------------------------ the datasets

\* An entry of a dataset object: key -> a scalar, or key -> {bin: frequency, ...}.
Scalar(key, v) == [key |-> key, kind |-> "scalar", scalar |-> v, bins |-> <<>>]

Bins(key, bins) == [key |-> key, kind |-> "bins", scalar |-> 0, bins |-> bins]

B(bin, freq) == [bin |-> bin, freq |-> freq]

Row4(a, b, c, d) == <<B("0-10", a), B("10-20", b), B("20-30", c), B(">30", d)>>

\* The sample data of windrose.drawRose.
SampleRose ==
    << Scalar("calm", 8),
       Bins("N", Row4(3, 12, 0, 0)),    Bins("NNE", Row4(4, 9, 2, 0)),
       Bins("NE", Row4(0, 20, 0, 0)),   Bins("ENE", Row4(0, 2, 0, 0)),
       Bins("E", Row4(0, 5, 0, 0)),     Bins("ESE", Row4(0, 5, 0, 0)),
       Bins("SE", Row4(0, 0, 0, 0)),    Bins("SSE", Row4(0, 0, 0, 0)),
       Bins("S", Row4(20, 30, 10, 10)), Bins("SSW", Row4(23, 0, 0, 0)),
       Bins("SW", Row4(23, 0, 0, 0)),   Bins("WSW", Row4(0, 11, 0, 0)),
       Bins("W", Row4(0, 11, 0, 0)),    Bins("WNW", Row4(0, 11, 0, 0)),
       Bins("NW", Row4(0, 0, 0, 0)),    Bins("NNW", Row4(0, 0, 0, 0)) >>

\* The sample data of windrose.bomStyle.drawRose.
SampleBom ==
    << Scalar("calm", 8),
       Bins("N", Row4(10, 10, 10, 10)), Bins("NE", Row4(10, 10, 10, 10)),
       Bins("E", Row4(10, 10, 10, 10)), Bins("SE", Row4(10, 10, 10, 10)),
       Bins("S", Row4(20, 30, 10, 10)), Bins("SW", Row4(10, 10, 10, 10)),
       Bins("W", Row4(10, 10, 10, 10)), Bins("NW", Row4(10, 10, 10, 10)) >>

\* The sample data of windrose.meanDirectional.drawRose.
SampleMean ==
    << Scalar("N", 10), Scalar("NE", 20), Scalar("E", 30), Scalar("SE", 40),
       Scalar("S", 50), Scalar("SW", 60), Scalar("W", 70), Scalar("NW", 80) >>

\* The default center of the three draw functions.
DefaultCenter == [x |-> 100, y |-> 80]

\* The inputs a caller passes: the keys of a generated dataset are the first
\* directions of the compass, "calm" is at any place among them, or absent, and
\* each direction holds the first bins of the dataset's label order (one order
\* is the configuration's, two hold a label the configuration lacks) with the
\* first frequencies of one frequency order.
Compass == <<"N", "NE", "E", "SE", "S", "SW", "W", "NW">>

LabelOrders ==
    { <<"0-10", "10-20", "20-30", ">30">>,
      <<"0-10", "40-50", "20-30", ">30">>,
      <<"40-50", "10-20", "20-30", ">30">> }

FreqOrders == { <<3, 12, 0, 5>>, <<12, 0, 3, 5>> }

Speeds == {10, 20}

CalmValues == {8}

Min(a, b) == IF a < b THEN a ELSE b

InsertAt(seq, p, e) == SubSeq(seq, 1, p) \o <<e>> \o SubSeq(seq, p + 1, Len(seq))

\* With "calm" absent, or inserted after the first p keys.
WithCalm(entries) ==
    {entries} \cup {InsertAt(entries, p, Scalar("calm", v)) : p \in 0..Len(entries), v \in CalmValues}

BinRows(labels) ==
    UNION { { [i \in 1..k |-> B(labels[i], f[i])] : f \in FreqOrders }
            : k \in 0..Min(MaxBins, Len(labels)) }

BinDatasets ==
    UNION { UNION { UNION { WithCalm([i \in 1..n |-> Bins(Compass[i], rows[i])])
                            : rows \in [1..n -> BinRows(labels)] }
                    : labels \in LabelOrders }
            : n \in 0..Min(MaxDirs, Len(Compass)) }

MeanDatasets ==
    UNION { UNION { WithCalm([i \in 1..n |-> Scalar(Compass[i], v[i])])
                    : v \in [1..n -> Speeds] }
            : n \in 0..Min(MaxDirs, Len(Compass)) }

GivenCenter == [x |-> 50, y |-> 60]

\* An argument: given, or left out (undefined).
Given(v) == [defined |-> TRUE, value |-> v]

NotGiven(v) == [defined |-> FALSE, value |-> v]

\* ---------------------------------------------------------- the functions

\* data[key] of a dataset: the scalar of the key, an object, or undefined.
RECURSIVE Lookup(_, _)
Lookup(entries, key) ==
    IF entries = <<>> THEN Undefined
    ELSE IF Head(entries).key = key
         THEN (IF Head(entries).kind = "scalar" THEN Num(Head(entries).scalar) ELSE Obj)
         ELSE Lookup(Tail(entries), key)

degreesInCircle == 360

RECURSIVE getDirections(_)
getDirections(entries) ==
    IF entries = <<>> THEN <<>>
    ELSE IF Head(entries).key # "calm"
         THEN <<Head(entries).key>> \o getDirections(Tail(entries))
         ELSE getDirections(Tail(entries))

\* The loop of getAngles from index i on: factor is the loop's factor, and
\* ++factor is factor + 1, read after the increment.
RECURSIVE getAnglesLoop(_, _, _, _, _)
getAnglesLoop(dirs, slices, i, factor, angs0) ==
    IF i > Len(dirs) THEN angs0
    ELSE LET span == [start |-> RatMul(RatDiv(RatInt(degreesInCircle), RatInt(slices)), factor),
                      end   |-> RatMul(RatDiv(RatInt(degreesInCircle), RatInt(slices)),
                                       RatAdd(factor, RatInt(1)))]
             next == [d \in (DOMAIN angs0) \cup {dirs[i]} |->
                         IF d = dirs[i] THEN span ELSE angs0[d]]
         IN  getAnglesLoop(dirs, slices, i + 1, RatAdd(factor, RatInt(1)), next)

\* The first value of factor in getAngles.
FirstFactor == Rat(-1, 2)

\* getAngles with factor starting at 0: north's slice starts at 0 degrees.
getAngles_factorFromZero(dirs) == getAnglesLoop(dirs, Len(dirs), 1, RatInt(0), <<>>)

\* getAngles dividing the circle by one slice too many.
getAngles_oneSliceMore(dirs) == getAnglesLoop(dirs, Len(dirs) + 1, 1, FirstFactor, <<>>)

getAngles(dirs) == getAnglesLoop(dirs, Len(dirs), 1, FirstFactor, <<>>)

RECURSIVE SumBins(_)
SumBins(bins) == IF bins = <<>> THEN 0 ELSE Head(bins).freq + SumBins(Tail(bins))

\* The loop of maxLength: max, calm and len are the function's variables.
RECURSIVE maxLengthLoop(_, _, _, _)
maxLengthLoop(entries, max, calm, len) ==
    IF entries = <<>> THEN max
    ELSE LET e     == Head(entries)
             calm1 == IF e.key = "calm" THEN e.scalar ELSE calm
             len1  == IF e.key = "calm" THEN len ELSE SumBins(e.bins)
             max1  == IF len1 + calm1 > max THEN len1 + calm1 ELSE max
         IN  maxLengthLoop(Tail(entries), max1, calm1, len1)

maxLength(entries) == maxLengthLoop(entries, 0, 0, 0)

\* Math.ceil(m / 10) * 10 of a non-negative integer m.
domain(entries) == ((maxLength(entries) + 9) \div 10) * 10

\* deg * (Math.PI / 180), in units of pi.
rad(deg) == RatMul(deg, Rat(1, 180))

\* ------------------------------------------------------------ the elements

\* What svgContainer.append adds.  An attribute that was never set is Undefined
\* (a number), "" (a colour) or <<>> (the title's text).
Circle(c, r, stroke) ==
    [kind |-> "circle", cx |-> c.x, cy |-> c.y, r |-> r, stroke |-> stroke]

Text(c, freq) == [kind |-> "text", x |-> c.x, y |-> c.y + freq, text |-> freq]

Path(inner, outer, span, fill, title) ==
    [kind |-> "path", inner |-> inner, outer |-> outer,
     startAngle |-> rad(span.start), endAngle |-> rad(span.end),
     fill |-> fill, title |-> title]

Rect(x, y, width, height, rotation, fill, title) ==
    [kind |-> "rect", x |-> x, y |-> y, width |-> width, height |-> height,
     rotation |-> rotation, fill |-> fill, title |-> title]

\* What a function did: the elements it appended, the value it returned (ret),
\* and whether it threw a TypeError (err) instead of returning.
Done(prims, ret) == [prims |-> prims, ret |-> ret, err |-> FALSE]

Threw(prims) == [prims |-> prims, ret |-> Undefined, err |-> TRUE]

\* ------------------------------------------------------ the frequency rose

config ==
    [b \in {"0-10", "10-20", "20-30", ">30"} |->
        CASE b = "0-10"  -> [fill |-> "#FFFF99"]
          [] b = "10-20" -> [fill |-> "#FFFF33"]
          [] b = "20-30" -> [fill |-> "#FFCC00"]
          [] b = ">30"   -> [fill |-> "#FF9900"]]

RECURSIVE drawFrequencyCirclesFrom(_, _)
drawFrequencyCirclesFrom(freq, c) ==
    IF freq >= 5
    THEN <<Circle(c, Num(freq), "#C8C8C8"), Text(c, freq)>>
         \o drawFrequencyCirclesFrom(freq - 10, c)
    ELSE <<>>

drawFrequencyCircles(domain0, c) == drawFrequencyCirclesFrom(domain0, c)

\* drawChunk returning the offset it was given: the next chunk starts where this
\* one started.
drawChunk_offsetNotAdvanced(dir, bin, freq, offset, c, angles) ==
    IF bin \in DOMAIN config
    THEN Done(<<Path(offset, JsAdd(offset, Num(freq)), angles[dir], config[bin].fill,
                     <<dir, bin, freq>>)>>,
              offset)
    ELSE Threw(<<Path(offset, JsAdd(offset, Num(freq)), angles[dir], "", <<>>)>>)

\* The path is appended and its "d" set before config[bin]["fill"] is read: with
\* a bin the configuration lacks, that read throws and leaves the path behind.
drawChunk(dir, bin, freq, offset, c, angles) ==
    IF bin \in DOMAIN config
    THEN Done(<<Path(offset, JsAdd(offset, Num(freq)), angles[dir], config[bin].fill,
                     <<dir, bin, freq>>)>>,
              JsAdd(offset, Num(freq)))
    ELSE Threw(<<Path(offset, JsAdd(offset, Num(freq)), angles[dir], "", <<>>)>>)

\* for (var bin in data[dir]) of drawRose.
RECURSIVE drawRoseBins(_, _, _, _, _)
drawRoseBins(dir, bins, offset, c, angles) ==
    IF bins = <<>> THEN Done(<<>>, offset)
    ELSE LET chunk == drawChunk(dir, Head(bins).bin, Head(bins).freq, offset, c, angles)
         IN  IF chunk.err THEN chunk
             ELSE LET rest == drawRoseBins(dir, Tail(bins), chunk.ret, c, angles)
                  IN  [rest EXCEPT !.prims = chunk.prims \o rest.prims]

\* for (var dir in data) of drawRose, from the entries left to visit.
RECURSIVE drawRoseDirs(_, _, _, _)
drawRoseDirs(entries, all, c, angles) ==
    IF entries = <<>> THEN Done(<<>>, Undefined)
    ELSE LET e == Head(entries)
             arm == IF e.key # "calm"
                    THEN drawRoseBins(e.key, e.bins, Lookup(all, "calm"), c, angles)
                    ELSE Done(<<>>, Undefined)
         IN  IF arm.err THEN arm
             ELSE LET rest == drawRoseDirs(Tail(entries), all, c, angles)
                  IN  [rest EXCEPT !.prims = arm.prims \o rest.prims]

\* drawRose drawing the radial axes after the arms.
drawRose_circlesLast(dataArg, centerArg) ==
    LET d == IF dataArg.defined THEN dataArg.value ELSE SampleRose
        c == IF centerArg.defined THEN centerArg.value ELSE DefaultCenter
        circles == drawFrequencyCircles(domain(d), c)
        arms == drawRoseDirs(d, d, c, getAngles(getDirections(d)))
    IN  [arms EXCEPT !.prims = arms.prims \o circles]

drawRose(dataArg, centerArg) ==
    LET d == IF dataArg.defined THEN dataArg.value ELSE SampleRose
        c == IF centerArg.defined THEN centerArg.value ELSE DefaultCenter
        circles == drawFrequencyCircles(domain(d), c)
        arms == drawRoseDirs(d, d, c, getAngles(getDirections(d)))
    IN  [arms EXCEPT !.prims = circles \o arms.prims]

\* ------------------------------------------------------ the telescope rose

bomStyle_config ==
    [b \in {"0-10", "10-20", "20-30", ">30"} |->
        CASE b = "0-10"  -> [fill |-> "#FFFF99", width |-> 4]
          [] b = "10-20" -> [fill |-> "#FFFF33", width |-> 8]
          [] b = "20-30" -> [fill |-> "#FFCC00", width |-> 12]
          [] b = ">30"   -> [fill |-> "#FF9900", width |-> 16]]

RECURSIVE bomStyle_drawRadiiCirclesFrom(_, _)
bomStyle_drawRadiiCirclesFrom(radius, c) ==
    IF radius >= 10
    THEN <<Circle(c, Num(radius), "#C8C8C8")>> \o bomStyle_drawRadiiCirclesFrom(radius - 10, c)
    ELSE <<>>

bomStyle_drawRadiiCircles(domain0, c) == bomStyle_drawRadiiCirclesFrom(domain0, c)

bomStyle_drawCalmCircle(calmPercent, c) == <<Circle(c, calmPercent, "black")>>

rotations ==
    [d \in {"N", "NE", "E", "SE", "S", "SW", "W", "NW"} |->
        CASE d = "N"  -> 180
          [] d = "NE" -> -90 - 45
          [] d = "E"  -> -90
          [] d = "SE" -> -45
          [] d = "S"  -> 0
          [] d = "SW" -> 45
          [] d = "W"  -> 90
          [] d = "NW" -> 90 + 45]

\* The pass advancing currentOffset by the bar's width instead of its height.
bomStyle_drawRect_advanceByWidth(dir, key, freq, currentOffset, c) ==
    IF key \in DOMAIN bomStyle_config
    THEN Done(<<Rect(Num(c.x - (bomStyle_config[key].width \div 2)), currentOffset,
                     Num(bomStyle_config[key].width), Num(freq),
                     IF dir \in DOMAIN rotations THEN Num(rotations[dir]) ELSE Undefined,
                     bomStyle_config[key].fill, <<dir, key, freq>>)>>,
              JsAdd(currentOffset, Num(bomStyle_config[key].width)))
    ELSE Threw(<<Rect(Undefined, Undefined, Undefined, Undefined, Undefined, "", <<>>)>>)

\* One pass of the inner loop of bomStyle.drawRose: the rect is appended before
\* bomStyle.config[key]["width"] is read, so a bin the configuration lacks leaves
\* a rect with no attribute.  Returns the next currentOffset.
bomStyle_drawRect(dir, key, freq, currentOffset, c) ==
    IF key \in DOMAIN bomStyle_config
    THEN Done(<<Rect(Num(c.x - (bomStyle_config[key].width \div 2)), currentOffset,
                     Num(bomStyle_config[key].width), Num(freq),
                     IF dir \in DOMAIN rotations THEN Num(rotations[dir]) ELSE Undefined,
                     bomStyle_config[key].fill, <<dir, key, freq>>)>>,
              JsAdd(currentOffset, Num(freq)))
    ELSE Threw(<<Rect(Undefined, Undefined, Undefined, Undefined, Undefined, "", <<>>)>>)

RECURSIVE bomStyle_drawRoseBins(_, _, _, _)
bomStyle_drawRoseBins(dir, bins, currentOffset, c) ==
    IF bins = <<>> THEN Done(<<>>, currentOffset)
    ELSE LET rect == bomStyle_drawRect(dir, Head(bins).bin, Head(bins).freq, currentOffset, c)
         IN  IF rect.err THEN rect
             ELSE LET rest == bomStyle_drawRoseBins(dir, Tail(bins), rect.ret, c)
                  IN  [rest EXCEPT !.prims = rect.prims \o rest.prims]

RECURSIVE bomStyle_drawRoseDirs(_, _, _)
bomStyle_drawRoseDirs(entries, offset, c) ==
    IF entries = <<>> THEN Done(<<>>, Undefined)
    ELSE LET e == Head(entries)
             arm == IF e.key # "calm"
                    THEN bomStyle_drawRoseBins(e.key, e.bins, offset, c)
                    ELSE Done(<<>>, Undefined)
         IN  IF arm.err THEN arm
             ELSE LET rest == bomStyle_drawRoseDirs(Tail(entries), offset, c)
                  IN  [rest EXCEPT !.prims = arm.prims \o rest.prims]

bomStyle_drawRose(dataArg, centerArg) ==
    LET d == IF dataArg.defined THEN dataArg.value ELSE SampleBom
        c == IF centerArg.defined THEN centerArg.value ELSE DefaultCenter
        circles == bomStyle_drawRadiiCircles(domain(d), c)
        calm == bomStyle_drawCalmCircle(Lookup(d, "calm"), c)
        offset == JsAdd(Num(c.y), Lookup(d, "calm"))
        arms == bomStyle_drawRoseDirs(d, offset, c)
    IN  [arms EXCEPT !.prims = circles \o calm \o arms.prims]

\* ------------------------------------------------ the mean directional rose

RECURSIVE meanDirectional_drawSpeedCirclesFrom(_, _)
meanDirectional_drawSpeedCirclesFrom(speed, c) ==
    IF speed >= 5
    THEN <<Circle(c, Num(speed), "#C8C8C8")>>
         \o meanDirectional_drawSpeedCirclesFrom(speed - 10, c)
    ELSE <<>>

meanDirectional_drawSpeedCircles(c) == meanDirectional_drawSpeedCirclesFrom(80, c)

\* drawSpeedSlice drawing a ring from the speed outwards instead of a sector
\* from the center out to the speed.
meanDirectional_drawSpeedSlice_ring(c, dir, speed, angles) ==
    IF dir \in DOMAIN angles
    THEN Done(<<Path(speed, JsAdd(speed, speed), angles[dir], "green", <<dir, speed>>)>>,
              Undefined)
    ELSE Threw(<<>>)

\* angles[dir].start is read before the path is appended: a key with no angles
\* ("calm") throws and appends nothing.
meanDirectional_drawSpeedSlice(c, dir, speed, angles) ==
    IF dir \in DOMAIN angles
    THEN Done(<<Path(Num(0), speed, angles[dir], "green", <<dir, speed>>)>>, Undefined)
    ELSE Threw(<<>>)

RECURSIVE meanDirectional_drawRoseDirs(_, _, _, _)
meanDirectional_drawRoseDirs(entries, all, c, angles) ==
    IF entries = <<>> THEN Done(<<>>, Undefined)
    ELSE LET slice == meanDirectional_drawSpeedSlice(c, Head(entries).key,
                                                     Lookup(all, Head(entries).key), angles)
         IN  IF slice.err THEN slice
             ELSE LET rest == meanDirectional_drawRoseDirs(Tail(entries), all, c, angles)
                  IN  [rest EXCEPT !.prims = slice.prims \o rest.prims]

meanDirectional_drawRose(dataArg, centerArg) ==
    LET d == IF dataArg.defined THEN dataArg.value ELSE SampleMean
        c == IF centerArg.defined THEN centerArg.value ELSE DefaultCenter
        angles == getAngles(getDirections(d))
        circles == meanDirectional_drawSpeedCircles(c)
        slices == meanDirectional_drawRoseDirs(d, d, c, angles)
    IN  [slices EXCEPT !.prims = circles \o slices.prims]

\* ------------------------------------------------------------------ states

\* A behaviour is one call of the library on a fresh, empty surface: the
\* functions keep nothing from one call to the next.

\* The dataset a draw call works on, and its center.
DataOf(dataArg, sample) == IF dataArg.defined THEN dataArg.value ELSE sample

CenterOf(centerArg) == IF centerArg.defined THEN centerArg.value ELSE DefaultCenter

Init ==
    /\ \/ \E d \in BinDatasets \cup MeanDatasets \cup {SampleRose, SampleBom, SampleMean} :
             data = Given(d) /\ center = Given(GivenCenter)
       \/ data = NotGiven(<<>>) /\ center = NotGiven(DefaultCenter)
    /\ svgContainer = <<>>
    /\ op = "none"
    /\ outcome = "none"
    /\ directions = <<>>
    /\ angs = <<>>
    /\ dom = 0

\* getDirections and getAngles of the data: for (key in undefined) visits nothing.
CallGetAngles ==
    /\ op = "none"
    /\ op' = "getAngles"
    /\ directions' = getDirections(data.value)
    /\ angs' = getAngles(directions')
    /\ outcome' = "returned"
    /\ UNCHANGED <<data, center, svgContainer, dom>>

CallDomain ==
    /\ op = "none"
    /\ op' = "domain"
    /\ dom' = domain(data.value)
    /\ outcome' = "returned"
    /\ UNCHANGED <<data, center, svgContainer, directions, angs>>

\* A draw call: what it appended stays on the surface when it throws.
Draw(name, r, sample) ==
    /\ op = "none"
    /\ op' = name
    /\ svgContainer' = svgContainer \o r.prims
    /\ outcome' = IF r.err THEN "TypeError" ELSE "returned"
    /\ directions' = getDirections(DataOf(data, sample))
    /\ UNCHANGED <<data, center, angs, dom>>

CallDrawRose == Draw("drawRose", drawRose(data, center), SampleRose)

CallBomStyleDrawRose == Draw("bomStyle.drawRose", bomStyle_drawRose(data, center), SampleBom)

CallMeanDirectionalDrawRose ==
    Draw("meanDirectional.drawRose", meanDirectional_drawRose(data, center), SampleMean)

Next ==
    \/ CallGetAngles
    \/ CallDomain
    \/ CallDrawRose
    \/ CallBomStyleDrawRose
    \/ CallMeanDirectionalDrawRose

Spec == Init /\ [][Next]_vars

\* ------------------------------------------------------ what a call is about

Draws == {"drawRose", "bomStyle.drawRose", "meanDirectional.drawRose"}

\* The dataset and the center the call worked on.
UsedData ==
    CASE op = "drawRose" -> DataOf(data, SampleRose)
      [] op = "bomStyle.drawRose" -> DataOf(data, SampleBom)
      [] op = "meanDirectional.drawRose" -> DataOf(data, SampleMean)
      [] OTHER -> data.value

UsedCenter == CenterOf(center)

\* The entries of a dataset that are directions, in the dataset's order.
DirEntries(d) == LET IsDir(e) == e.key # "calm" IN SelectSeq(d, IsDir)

HasCalm(d) == Lookup(d, "calm").t = "number"

NoCalm(d) == \A k \in 1..Len(d) : d[k].key # "calm"

\* The elements of one kind on the surface, in the order they were appended.
Elements(kind) == LET Is(e) == e.kind = kind IN SelectSeq(svgContainer, Is)

\* The titled elements of one kind that belong to direction dir.
ElementsOf(kind, dir) ==
    LET Is(e) == e.kind = kind /\ Len(e.title) > 0 /\ e.title[1] = dir
    IN  SelectSeq(svgContainer, Is)

\* The reference circles (grey) and the calm circles (black).
RefCircles == LET Is(e) == e.kind = "circle" /\ e.stroke = "#C8C8C8" IN SelectSeq(svgContainer, Is)

CalmCircles == LET Is(e) == e.kind = "circle" /\ e.stroke = "black" IN SelectSeq(svgContainer, Is)

\* The speed bins of all the directions together.
RECURSIVE TotalBins(_)
TotalBins(dirs) == IF dirs = <<>> THEN 0 ELSE Len(Head(dirs).bins) + TotalBins(Tail(dirs))

\* A direction -> {bin: frequency} dataset.
IsBinDataset(d) == \A k \in 1..Len(d) : d[k].key # "calm" => d[k].kind = "bins"

RECURSIVE SumWidths(_)
SumWidths(i) ==
    IF i = 0 THEN RatInt(0)
    ELSE RatAdd(RatSub(angs[directions[i]].end, angs[directions[i]].start), SumWidths(i - 1))

\* ------------------------------------------------------------------ claims

\* C1: for N >= 1 directions getAngles gives the direction at 0-based index i
\* the span start = (360/N)*(i - 0.5), end = (360/N)*(i + 0.5); so every span is
\* 360/N wide, each span ends where the next starts, the widths sum to 360 and
\* the first span is centered on 0.
C1_AnglesEvenAndCentered ==
    (op = "getAngles" /\ Len(directions) >= 1) =>
        LET N == Len(directions)
            span(i) == angs[directions[i + 1]]
        IN  /\ DOMAIN angs = {directions[k] : k \in 1..N}
            /\ \A i \in 0..(N - 1) :
                  /\ span(i).start = Rat(360 * (2 * i - 1), 2 * N)
                  /\ span(i).end = Rat(360 * (2 * i + 1), 2 * N)
                  /\ RatSub(span(i).end, span(i).start) = Rat(360, N)
            /\ \A i \in 0..(N - 2) : span(i).end = span(i + 1).start
            /\ SumWidths(N) = RatInt(360)
            /\ RatAdd(span(0).start, span(0).end) = RatInt(0)

C1_Witness ==
    /\ op = "getAngles"
    /\ Len(directions) = 2
    /\ angs["N"] = [start |-> RatInt(-90), end |-> RatInt(90)]
    /\ angs["NE"] = [start |-> RatInt(90), end |-> RatInt(270)]

\* The largest total of a direction: the sum of its bins plus the calm value,
\* 0 when "calm" is absent.
RECURSIVE TrueMax(_, _)
TrueMax(entries, calm) ==
    IF entries = <<>> THEN 0
    ELSE LET rest == TrueMax(Tail(entries), calm)
             mine == IF Head(entries).key = "calm" THEN 0
                     ELSE SumBins(Head(entries).bins) + calm
         IN  IF mine > rest THEN mine ELSE rest

CalmOrZero(d) == IF HasCalm(d) THEN Lookup(d, "calm").n ELSE 0

\* C2: wherever "calm" stands among the keys, domain(data) is a non-negative
\* multiple of 10 and at least the largest total of a direction, the calm value
\* counted in every direction's total.
C2_DomainCoversMaximum ==
    op = "domain" =>
        /\ dom >= 0
        /\ dom % 10 = 0
        /\ dom >= TrueMax(data.value, CalmOrZero(data.value))

\* C3: in a frequency rose that was drawn from a dataset with calm value c,
\* every direction has one arc for each of its bins, in bin order; its first arc
\* has inner radius c, every arc has outer radius = inner radius + frequency,
\* every later arc starts at the outer radius of the arc before it, and the last
\* arc ends at c + the sum of the bins.  The sample's N gives [8,11], [11,23],
\* [23,23], [23,23].
C3_ArcsStackFromCalm ==
    (op = "drawRose" /\ outcome = "returned" /\ HasCalm(UsedData)) =>
        LET c == Lookup(UsedData, "calm").n
            dirs == DirEntries(UsedData)
        IN  /\ Len(Elements("path")) = TotalBins(dirs)
            /\ \A k \in 1..Len(dirs) :
                  LET bins == dirs[k].bins
                      a == ElementsOf("path", dirs[k].key)
                  IN  /\ Len(a) = Len(bins)
                      /\ \A i \in 1..Len(a) :
                            /\ a[i].title = <<dirs[k].key, bins[i].bin, bins[i].freq>>
                            /\ a[i].inner.t = "number"
                            /\ a[i].outer = Num(a[i].inner.n + bins[i].freq)
                            /\ i = 1 => a[i].inner = Num(c)
                            /\ i > 1 => a[i].inner = a[i - 1].outer
                      /\ Len(a) > 0 => a[Len(a)].outer = Num(c + SumBins(bins))
            /\ UsedData = SampleRose =>
                  [i \in 1..4 |-> <<ElementsOf("path", "N")[i].inner, ElementsOf("path", "N")[i].outer>>]
                     = << <<Num(8), Num(11)>>, <<Num(11), Num(23)>>,
                          <<Num(23), Num(23)>>, <<Num(23), Num(23)>> >>

C3_Witness ==
    /\ op = "drawRose"
    /\ outcome = "returned"
    /\ ~data.defined
    /\ Len(ElementsOf("path", "S")) = 4
    /\ ElementsOf("path", "S")[4].inner = Num(68)
    /\ ElementsOf("path", "S")[4].outer = Num(78)

\* C4: in a telescope rose that was drawn from a dataset with calm value c,
\* around the center (cx, cy), every direction has one rectangle for each of its
\* bins, in bin order; its first rectangle has y = cy + c, every rectangle has
\* height = frequency, the bin's configured width and x = cx - width/2, and every
\* later rectangle's y is the y plus the height of the rectangle before it.  The
\* sample's N gives y = cy+8, cy+18, cy+28, cy+38, each of height 10.
C4_RectsStackFromCalm ==
    (op = "bomStyle.drawRose" /\ outcome = "returned" /\ HasCalm(UsedData)) =>
        LET c == Lookup(UsedData, "calm").n
            cx == UsedCenter.x
            cy == UsedCenter.y
            dirs == DirEntries(UsedData)
        IN  /\ Len(Elements("rect")) = TotalBins(dirs)
            /\ \A k \in 1..Len(dirs) :
                  LET bins == dirs[k].bins
                      a == ElementsOf("rect", dirs[k].key)
                  IN  /\ Len(a) = Len(bins)
                      /\ \A i \in 1..Len(a) :
                            /\ a[i].title = <<dirs[k].key, bins[i].bin, bins[i].freq>>
                            /\ a[i].height = Num(bins[i].freq)
                            /\ a[i].width = Num(bomStyle_config[bins[i].bin].width)
                            /\ 2 * a[i].x.n = 2 * cx - a[i].width.n
                            /\ a[i].y.t = "number"
                            /\ i = 1 => a[i].y = Num(cy + c)
                            /\ i > 1 => a[i].y = Num(a[i - 1].y.n + a[i - 1].height.n)
            /\ UsedData = SampleBom =>
                  [i \in 1..4 |-> <<ElementsOf("rect", "N")[i].y, ElementsOf("rect", "N")[i].height>>]
                     = << <<Num(cy + 8), Num(10)>>, <<Num(cy + 18), Num(10)>>,
                          <<Num(cy + 28), Num(10)>>, <<Num(cy + 38), Num(10)>> >>

C4_Witness ==
    /\ op = "bomStyle.drawRose"
    /\ outcome = "returned"
    /\ ~data.defined
    /\ Len(ElementsOf("rect", "S")) = 4
    /\ ElementsOf("rect", "S")[2].y = Num(80 + 8 + 20)
    /\ ElementsOf("rect", "S")[2].height = Num(30)
    /\ ElementsOf("rect", "S")[2].x = Num(100 - 4)

\* The same dataset with "calm": 0 as its first key.
WithCalmZero(d) == Given(<<Scalar("calm", 0)>> \o d)

\* C5: with no "calm" key (and directions that each hold a bin), calm counts
\* as 0 and the draw call is no error: domain(data) is the domain of the same dataset with calm 0; the frequency
\* rose's first arc of every direction has inner radius 0 and the radii after it
\* are numbers; the telescope rose's calm circle has radius 0 and the first
\* rectangle of every direction is at y = center.y; the elements are those drawn
\* for the same dataset with "calm": 0.
C5_MissingCalmIsZero ==
    (data.defined /\ NoCalm(data.value) /\ IsBinDataset(data.value)
        /\ Len(data.value) >= 1 /\ \A k \in 1..Len(data.value) : Len(data.value[k].bins) >= 1) =>
        /\ op = "domain" => dom = domain(WithCalmZero(data.value).value)
        /\ op \in {"drawRose", "bomStyle.drawRose"} =>
              \A k \in 1..Len(DirEntries(UsedData)) :
                  LET dir == DirEntries(UsedData)[k].key
                      arcs == ElementsOf("path", dir)
                      rects == ElementsOf("rect", dir)
                  IN  /\ op = "drawRose" =>
                            \A i \in 1..Len(arcs) :
                                /\ arcs[i].inner.t = "number"
                                /\ arcs[i].outer.t = "number"
                                /\ i = 1 => arcs[i].inner = Num(0)
                      /\ op = "bomStyle.drawRose" =>
                            /\ Len(CalmCircles) = 1
                            /\ CalmCircles[1].r = Num(0)
                            /\ Len(rects) > 0 => rects[1].y = Num(UsedCenter.y)
        /\ op = "drawRose" => svgContainer = drawRose(WithCalmZero(data.value), center).prims
        /\ op = "bomStyle.drawRose" =>
              svgContainer = bomStyle_drawRose(WithCalmZero(data.value), center).prims

\* C6: a draw call that fails part-way leaves the surface as it was before the
\* call, which is empty: none of the call's elements is on it.
C6_FailedCallEmitsNothing ==
    (op \in {"drawRose", "bomStyle.drawRose"} /\ outcome = "TypeError") => Len(svgContainer) = 0

\* C7: getAngles of zero directions is rejected instead of returning a result,
\* and a draw call on a dataset with no direction ends in that error.
C7_ZeroDirectionsRejected ==
    /\ (op = "getAngles" /\ Len(directions) = 0) => outcome # "returned"
    /\ (op \in Draws /\ Len(DirEntries(UsedData)) = 0) => outcome # "returned"

\* C8, as stated: for N >= 1 the spans partition [-180, 180): the smallest
\* start is -180, the largest end is 180, and every start and end lies in the
\* interval.
C8_SpansPartitionMinus180To180 ==
    (op = "getAngles" /\ Len(directions) >= 1) =>
        LET spans == {angs[directions[k]] : k \in 1..Len(directions)}
        IN  /\ \E s \in spans : s.start = RatInt(-180)
            /\ \E s \in spans : s.end = RatInt(180)
            /\ \A s \in spans :
                  /\ RatLe(RatInt(-180), s.start) /\ RatLe(s.start, RatInt(180))
                  /\ RatLe(RatInt(-180), s.end) /\ RatLe(s.end, RatInt(180))

\* C8, amended: for N >= 1 the spans partition [-180/N, 360 - 180/N): the
\* smallest start is -180/N, the largest end is 360 - 180/N, every start and end
\* lies in the interval, and each span but the last ends where another starts.
\* (For N = 1 that interval is [-180, 180).)
C8_SpansPartitionFromHalfSliceBeforeNorth ==
    (op = "getAngles" /\ Len(directions) >= 1) =>
        LET N == Len(directions)
            spans == {angs[directions[k]] : k \in 1..N}
            lo == Rat(-180, N)
            hi == RatSub(RatInt(360), Rat(180, N))
        IN  /\ Cardinality(spans) = N
            /\ \E s \in spans : s.start = lo
            /\ \E s \in spans : s.end = hi
            /\ \A s \in spans :
                  /\ RatLe(lo, s.start) /\ RatLt(s.start, s.end) /\ RatLe(s.end, hi)
                  /\ s.end # hi => \E t \in spans : t.start = s.end
            /\ N = 1 => lo = RatInt(-180) /\ hi = RatInt(180)

C8_Witness ==
    /\ op = "getAngles"
    /\ directions = <<"N", "NE">>
    /\ angs["N"].start = RatInt(-90)
    /\ angs["NE"].end = RatInt(270)
    /\ \A d \in DOMAIN angs : angs[d].end # RatInt(180)

\* C9: a mean-directional rose over a direction -> scalar dataset has exactly
\* one arc for each key, in the data's order, with inner radius 0, outer radius
\* the key's value and the angles of the key's span (start = (360/N)*(i - 0.5),
\* end = (360/N)*(i + 0.5), in radians), the first centered on 0; its reference
\* circles are 80, 70, ..., 10 whatever the data.
C9_OneSectorPerDirection ==
    (op = "meanDirectional.drawRose" /\ NoCalm(UsedData)
        /\ \A k \in 1..Len(UsedData) : UsedData[k].kind = "scalar") =>
        LET d == UsedData
            N == Len(d)
            arcs == Elements("path")
        IN  /\ outcome = "returned"
            /\ Len(arcs) = N
            /\ \A k \in 1..N :
                  /\ arcs[k].title = <<d[k].key, Num(d[k].scalar)>>
                  /\ arcs[k].inner = Num(0)
                  /\ arcs[k].outer = Num(d[k].scalar)
                  /\ arcs[k].startAngle = Rat(360 * (2 * (k - 1) - 1), 2 * N * 180)
                  /\ arcs[k].endAngle = Rat(360 * (2 * (k - 1) + 1), 2 * N * 180)
            /\ N >= 1 => RatAdd(arcs[1].startAngle, arcs[1].endAngle) = RatInt(0)
            /\ [i \in 1..Len(RefCircles) |-> RefCircles[i].r]
                  = <<Num(80), Num(70), Num(60), Num(50), Num(40), Num(30), Num(20), Num(10)>>

C9_Witness ==
    /\ op = "meanDirectional.drawRose"
    /\ outcome = "returned"
    /\ data.defined
    /\ Len(UsedData) = 2
    /\ Len(Elements("path")) = 2
    /\ Elements("path")[2].outer = Num(20)
    /\ Elements("path")[2].startAngle = Rat(1, 2)
    /\ Elements("path")[2].endAngle = Rat(3, 2)

\* Where a direction stands among the directions of the dataset.
DirIndex(dir) ==
    LET dirs == DirEntries(UsedData)
    IN  CHOOSE k \in 1..Len(dirs) : dirs[k].key = dir

\* Where a bin stands among the bins of its direction.
BinIndex(dir, bin) ==
    LET bins == DirEntries(UsedData)[DirIndex(dir)].bins
    IN  CHOOSE i \in 1..Len(bins) : bins[i].bin = bin

IsDataElement(e) == e.kind \in {"path", "rect"}

IsReference(e) == e.kind = "circle" /\ e.stroke = "#C8C8C8"

IsCalmCircle(e) == e.kind = "circle" /\ e.stroke = "black"

\* C10: the elements of every draw call are in order: every reference circle
\* comes before every arc or rectangle, the reference radii go down in steps of
\* 10 from the domain (from 80 in the mean-directional rose); the telescope rose
\* has exactly one calm circle, of radius calm, after the reference circles and
\* before the rectangles; arcs and rectangles come direction by direction in the
\* dataset's order, and within a direction in bin order.
C10_ElementsInOrder ==
    op \in Draws =>
        LET s == svgContainer
            refs == RefCircles
            first == IF op = "meanDirectional.drawRose" THEN 80 ELSE domain(UsedData)
            titled == LET Is(e) == IsDataElement(e) /\ Len(e.title) > 0 IN SelectSeq(s, Is)
        IN  /\ \A i, j \in 1..Len(s) : (IsReference(s[i]) /\ IsDataElement(s[j])) => i < j
            /\ Len(refs) = first \div 10
            /\ \A i \in 1..Len(refs) : refs[i].r = Num(first - 10 * (i - 1))
            /\ op = "bomStyle.drawRose" =>
                  /\ Len(CalmCircles) = 1
                  /\ CalmCircles[1].r = Lookup(UsedData, "calm")
                  /\ \A i, j \in 1..Len(s) :
                        /\ (IsReference(s[i]) /\ IsCalmCircle(s[j])) => i < j
                        /\ (IsCalmCircle(s[i]) /\ IsDataElement(s[j])) => i < j
            /\ op # "bomStyle.drawRose" => Len(CalmCircles) = 0
            /\ \A i \in 1..(Len(titled) - 1) :
                  LET a == titled[i]
                      b == titled[i + 1]
                  IN  \/ DirIndex(a.title[1]) < DirIndex(b.title[1])
                      \/ /\ a.title[1] = b.title[1]
                         /\ op # "meanDirectional.drawRose"
                         /\ BinIndex(a.title[1], a.title[2]) < BinIndex(b.title[1], b.title[2])

C10_Witness ==
    /\ op = "bomStyle.drawRose"
    /\ outcome = "returned"
    /\ data.defined
    /\ Len(RefCircles) = 3
    /\ Len(DirEntries(UsedData)) = 2
    /\ Len(ElementsOf("rect", "N")) = 2
    /\ Len(ElementsOf("rect", "NE")) = 2
    /\ svgContainer[4].stroke = "black"
    /\ svgContainer[5].kind = "rect"

====
